---------------------------- MODULE Spec2Model ----------------------------
(***************************************************************************)
(* A model of common/utils.py of the MoVi project:                         *)
(*   - read_dataset / get_details_from_path: pairing of MoCap (AMASS)      *)
(*     files with video files through a regular expression built from the  *)
(*     MoCap file name (specification Spec);                               *)
(*   - convert_world_points_to_image_points / adapt_motion_data_for_video: *)
(*     the projection of world points to integer pixel coordinates         *)
(*     (specification SpecProjection).                                     *)
(*                                                                         *)
(* Strings are sequences of one-character strings, so that slicing,        *)
(* splitting, int(), format() and the regular expression are computed,     *)
(* not assumed.  File names are drawn from the alphabet of the dataset's   *)
(* naming scheme (letters, digits, "_", ".", "/"); of the characters that  *)
(* are special in a regular expression only "." occurs in a file name.     *)
(***************************************************************************)
EXTENDS Integers, Sequences, FiniteSets, TLC

VARIABLES
    \* read_dataset
    video_paths,            \* glob.glob(videos_dir + '/*.avi')
    amass_paths,            \* glob.glob(amass_dir + '/*.npz')
    videos_list,            \* the list of paired video paths
    motion_captures_list,   \* the list of paired MoCap paths
    next_path,              \* position of the for loop in amass_paths (1-based)
    pc,                     \* "loop" | "done" | "raised"
    error,                  \* the exception that left read_dataset, or ""
    \* convert_world_points_to_image_points / adapt_motion_data_for_video
    entry,                  \* which function the caller called: "convert" | "adapt" | "none"
    camera,                 \* Camera: rotation_matrix, translation_vector, intrinsic_matrix
    motion_capture_data,    \* MotionCapture: joints (an array), fps
    fps,                    \* the fps argument of adapt_motion_data_for_video
    markers,                \* get_joints_reduced_by_fps(fps)
    joint,                  \* the loop variable i of adapt_motion_data_for_video (0-based)
    adapted_points,         \* image_points of adapt_motion_data_for_video
    world_points,           \* the argument of convert_world_points_to_image_points
    image_points,           \* image_points of convert_world_points_to_image_points
    idx,                    \* the loop variable idx (0-based)
    ppc,                    \* "idle" | "adapt" | "convert" | "done" | "raised"
    perror                  \* the exception that left the called function, or ""

pairing_vars == <<video_paths, amass_paths, videos_list, motion_captures_list,
                  next_path, pc, error>>
projection_vars == <<entry, camera, motion_capture_data, fps, markers, joint,
                     adapted_points, world_points, image_points, idx, ppc, perror>>
vars == <<pairing_vars, projection_vars>>

---------------------------------------------------------------------------
(* Bounds of the model *)

\* the largest number of MoCap paths the glob returns
MaxAmass == 2
\* the largest number of video paths the glob returns
MaxVideos == 3

---------------------------------------------------------------------------
(* Python's str and list operations used by the code *)

Min(a, b) == IF a < b THEN a ELSE b

Max(a, b) == IF a > b THEN a ELSE b

DigitChars == <<"0", "1", "2", "3", "4", "5", "6", "7", "8", "9">>

DigitValue(c) == (CHOOSE d \in 1..10 : DigitChars[d] = c) - 1

\* s[a:b] for 0 <= a, 0 <= b
Slice(s, a, b) ==
    IF a >= Min(b, Len(s)) THEN <<>> ELSE SubSeq(s, a + 1, Min(b, Len(s)))

\* s.rfind(c): the 0-based position of the last c in s, or -1
RFind(s, c) ==
    IF \E i \in 1..Len(s) : s[i] = c
    THEN (CHOOSE i \in 1..Len(s) : s[i] = c /\ \A j \in (i+1)..Len(s) : s[j] # c) - 1
    ELSE -1

\* s.isdigit()
IsDigit(s) ==
    /\ Len(s) > 0
    /\ \A i \in 1..Len(s) : \E d \in 1..10 : DigitChars[d] = s[i]

\* int(s) of a string of digits: leading zeros are dropped
RECURSIVE ParseInt(_)
ParseInt(s) ==
    IF Len(s) = 0 THEN 0
    ELSE 10 * ParseInt(SubSeq(s, 1, Len(s) - 1)) + DigitValue(s[Len(s)])

\* '{}'.format(n) of a natural number
RECURSIVE Str(_)
Str(n) ==
    IF n < 10 THEN <<DigitChars[n + 1]>>
    ELSE Str(n \div 10) \o <<DigitChars[(n % 10) + 1]>>

\* s.split(sep)
RECURSIVE Split(_, _)
Split(s, sep) ==
    IF \E i \in 1..Len(s) : s[i] = sep
    THEN LET i == CHOOSE k \in 1..Len(s) :
                      s[k] = sep /\ \A j \in 1..(k-1) : s[j] # sep
         IN  <<Slice(s, 0, i - 1)>> \o Split(Slice(s, i, Len(s)), sep)
    ELSE <<s>>

\* Path(path).stem: the last component of the path without its last suffix
Stem(path) ==
    LET name == Slice(path, RFind(path, "/") + 1, Len(path))
        i    == RFind(name, ".")
    IN  IF 0 < i /\ i < Len(name) - 1 THEN Slice(name, 0, i) ELSE name

---------------------------------------------------------------------------
(* get_details_from_path *)

\* the positions of file_name[8:15]
NameStart == 8
NameEnd == 15

\* [int(s) for s in file_name.split('_') if s.isdigit()]
Numbers(file_name) ==
    LET tokens == SelectSeq(Split(file_name, "_"), IsDigit)
    IN  [k \in 1..Len(tokens) |-> ParseInt(tokens[k])]

NameOf(file_name) == Slice(file_name, NameStart, NameEnd)

\* The result of get_details_from_path: the triple, or the IndexError that
\* numbers[0] or numbers[1] raises.
get_details_from_path(path) ==
    LET file_name == Stem(path)
        numbers   == Numbers(file_name)
        name      == NameOf(file_name)
    IN  IF Len(numbers) < 2
        THEN [raised |-> "IndexError", name |-> <<>>, number |-> 0, sub_number |-> 0]
        ELSE [raised |-> "", name |-> name,
              number |-> numbers[1], sub_number |-> numbers[2]]

---------------------------------------------------------------------------
(* The regular expression of read_dataset *)

\* (mutant) the dot of the format string left unescaped: it matches any character
PatternEndUnescaped == <<".">>

\* the end of the format string: '\.' matches a literal dot
PatternEnd == <<"\\", ".">>

\* '.*{}_{}_.*_{}\.'.format(name, number, sub_number)
Pattern(name, number, sub_number) ==
    <<".", "*">> \o name \o <<"_">> \o Str(number) \o <<"_", ".", "*", "_">>
        \o Str(sub_number) \o PatternEnd

\* re.compile: the pattern as a sequence of items, each an atom (any
\* character, or one literal character) that may be starred.
RECURSIVE Compile(_)
Compile(p) ==
    IF Len(p) = 0 THEN <<>>
    ELSE LET escaped == p[1] = "\\" /\ Len(p) >= 2
             width   == IF escaped THEN 2 ELSE 1
             atom    == IF escaped THEN [any |-> FALSE, ch |-> p[2]]
                        ELSE IF p[1] = "." THEN [any |-> TRUE, ch |-> "."]
                        ELSE [any |-> FALSE, ch |-> p[1]]
             starred == Len(p) > width /\ p[width + 1] = "*"
             used    == IF starred THEN width + 1 ELSE width
         IN  <<[atom |-> atom, star |-> starred]>>
                 \o Compile(Slice(p, used, Len(p)))

Accepts(atom, c) == atom.any \/ atom.ch = c

\* The positions (0-based, in s) a match may have reached after one more
\* item, from the positions in `from`.
Advance(item, s, from) ==
    IF item.star
    THEN {k \in 0..Len(s) : \E j \in from :
              j <= k /\ (item.atom.any \/ \A m \in (j+1)..k : Accepts(item.atom, s[m]))}
    ELSE {j + 1 : j \in {k \in from : k < Len(s) /\ Accepts(item.atom, s[k + 1])}}

RECURSIVE Reached(_, _, _)
Reached(r, s, from) ==
    IF Len(r) = 0 THEN from
    ELSE Reached(Tail(r), s, Advance(Head(r), s, from))

\* r.match(s): the pattern matches a prefix of s
Match(r, s) == Reached(r, s, {0}) # {}

---------------------------------------------------------------------------
(* The files of the model *)

\* a/F_amass_Subject_1_1.npz
Amass_Subject_1_1 ==
    <<"a","/","F","_","a","m","a","s","s","_","S","u","b","j","e","c","t","_","1","_","1",".","n","p","z">>
\* a/F_amass_Subject_1_2.npz
Amass_Subject_1_2 ==
    <<"a","/","F","_","a","m","a","s","s","_","S","u","b","j","e","c","t","_","1","_","2",".","n","p","z">>
\* a/G_amass_Subject_01_1.npz
Amass_Subject_01_1 ==
    <<"a","/","G","_","a","m","a","s","s","_","S","u","b","j","e","c","t","_","0","1","_","1",".","n","p","z">>
\* a/F_amass_Sub.ect_1_1.npz
Amass_Sub_ect_1_1 ==
    <<"a","/","F","_","a","m","a","s","s","_","S","u","b",".","e","c","t","_","1","_","1",".","n","p","z">>
\* a/S_1_2.npz
Amass_ShortStem ==
    <<"a","/","S","_","1","_","2",".","n","p","z">>
\* a/F_amass_Subject_1.npz
Amass_OneNumber ==
    <<"a","/","F","_","a","m","a","s","s","_","S","u","b","j","e","c","t","_","1",".","n","p","z">>
\* v/F_video_Subject_1_L_1.avi
Video_Subject_1_L_1 ==
    <<"v","/","F","_","v","i","d","e","o","_","S","u","b","j","e","c","t","_","1","_","L","_","1",".","a","v","i">>
\* v/F_video_Subject_1_L_2.avi
Video_Subject_1_L_2 ==
    <<"v","/","F","_","v","i","d","e","o","_","S","u","b","j","e","c","t","_","1","_","L","_","2",".","a","v","i">>
\* v/F_video_Subject_1_L_11.avi
Video_Subject_1_L_11 ==
    <<"v","/","F","_","v","i","d","e","o","_","S","u","b","j","e","c","t","_","1","_","L","_","1","1",".","a","v","i">>
\* v/F_video_Subject_11_L_1.avi
Video_Subject_11_L_1 ==
    <<"v","/","F","_","v","i","d","e","o","_","S","u","b","j","e","c","t","_","1","1","_","L","_","1",".","a","v","i">>
\* v/F_video_Subject_1_11_1.avi
Video_Subject_1_11_1 ==
    <<"v","/","F","_","v","i","d","e","o","_","S","u","b","j","e","c","t","_","1","_","1","1","_","1",".","a","v","i">>

AmassFiles ==
    {Amass_Subject_1_1, Amass_Subject_1_2, Amass_Subject_01_1, Amass_Sub_ect_1_1,
     Amass_ShortStem, Amass_OneNumber}

VideoFiles ==
    {Video_Subject_1_L_1, Video_Subject_1_L_2,
     Video_Subject_1_L_11, Video_Subject_11_L_1, Video_Subject_1_11_1}

\* A directory listing: a sequence of pairwise distinct paths, in any order.
Listings(files, n) ==
    {l \in UNION {[1..k -> files] : k \in 0..n} :
        \A i, j \in 1..Len(l) : i # j => l[i] # l[j]}

---------------------------------------------------------------------------
(* read_dataset *)

\* list(filter(r.match, video_paths))
FoundVideoPaths(r, paths) == SelectSeq(paths, LAMBDA v : Match(r, v))

\* (mutant) len(found_video_paths) >= 1
IsPairedAtLeastOne(found_video_paths) == Len(found_video_paths) >= 1

\* len(found_video_paths) == 1
IsPaired(found_video_paths) == Len(found_video_paths) = 1

\* the pattern compiled for one MoCap path whose details parse
CompiledFor(path) ==
    LET d == get_details_from_path(path)
    IN  Compile(Pattern(d.name, d.number, d.sub_number))

PairingInit ==
    /\ video_paths \in Listings(VideoFiles, MaxVideos)
    /\ amass_paths \in Listings(AmassFiles, MaxAmass)
    /\ videos_list = <<>>
    /\ motion_captures_list = <<>>
    /\ next_path = 1
    /\ pc = "loop"
    /\ error = ""

\* One iteration of `for path in amass_paths`.
LoopBody ==
    /\ pc = "loop"
    /\ next_path <= Len(amass_paths)
    /\ LET path == amass_paths[next_path]
           d    == get_details_from_path(path)
       IN  IF d.raised # ""
           THEN /\ pc' = "raised"
                /\ error' = d.raised
                /\ UNCHANGED <<videos_list, motion_captures_list, next_path>>
           ELSE LET r == Compile(Pattern(d.name, d.number, d.sub_number))
                    found_video_paths == FoundVideoPaths(r, video_paths)
                IN  /\ IF IsPaired(found_video_paths)
                       THEN /\ videos_list' = Append(videos_list, found_video_paths[1])
                            /\ motion_captures_list' = Append(motion_captures_list, path)
                       ELSE UNCHANGED <<videos_list, motion_captures_list>>
                    /\ next_path' = next_path + 1
                    /\ UNCHANGED <<pc, error>>
    /\ UNCHANGED <<video_paths, amass_paths>>
    /\ UNCHANGED projection_vars

\* return np.array(videos_list), np.array(motion_captures_list)
Return ==
    /\ pc = "loop"
    /\ next_path > Len(amass_paths)
    /\ pc' = "done"
    /\ UNCHANGED <<video_paths, amass_paths, videos_list, motion_captures_list,
                   next_path, error>>
    /\ UNCHANGED projection_vars

PairingIdle ==
    /\ video_paths = <<>>
    /\ amass_paths = <<>>
    /\ videos_list = <<>>
    /\ motion_captures_list = <<>>
    /\ next_path = 0
    /\ pc = "idle"
    /\ error = ""

ProjectionIdle ==
    /\ entry = "none"
    /\ camera = <<>>
    /\ motion_capture_data = <<>>
    /\ fps = 0
    /\ markers = <<>>
    /\ joint = 0
    /\ adapted_points = <<>>
    /\ world_points = <<>>
    /\ image_points = <<>>
    /\ idx = 0
    /\ ppc = "idle"
    /\ perror = ""

Init == PairingInit /\ ProjectionIdle

Next == LoopBody \/ Return

Spec == Init /\ [][Next]_vars

---------------------------------------------------------------------------
(* numpy arrays: a shape and the nested sequences of the entries.  The     *)
(* entries are integers, a sample of the reals on which the products and   *)
(* quotients of the code are exact.                                        *)

\* the largest number of world points of a direct call
MaxPoints == 2
\* the largest number of recorded frames of a motion capture
MaxFrames == 2
\* the largest number of joints of a motion capture
MaxJoints == 2

\* np.zeros((n, 2), dtype=int)
Zeros(n) == [shape |-> <<n, 2>>, data |-> [i \in 1..n |-> <<0, 0>>]]

\* np.full(shape, 0, dtype=int) of a three-dimensional shape
Full(shape) ==
    [shape |-> shape,
     data  |-> [f \in 1..shape[1] |-> [j \in 1..shape[2] |-> [c \in 1..shape[3] |-> 0]]]]

\* a[:, i, :] of a three-dimensional array (i 0-based)
Column(a, i) ==
    [shape |-> <<a.shape[1], a.shape[3]>>,
     data  |-> [f \in 1..a.shape[1] |-> a.data[f][i + 1]]]

\* np.squeeze of a two-dimensional array whose last axis is longer than 1:
\* a first axis of length 1 is removed.
Squeeze(a) ==
    IF a.shape[1] = 1 THEN [shape |-> <<a.shape[2]>>, data |-> a.data[1]] ELSE a

\* The values `for idx, val in enumerate(a)` yields, each flattened: a row of
\* a two-dimensional array, a scalar of a one-dimensional one.
Enumerate(a) ==
    IF Len(a.shape) = 1 THEN [i \in 1..a.shape[1] |-> <<a.data[i]>>] ELSE a.data

\* sum of f[1..n]
RECURSIVE Sum(_, _)
Sum(f, n) == IF n = 0 THEN 0 ELSE Sum(f, n - 1) + f[n]

\* np.dot of an (n x k) and a (k x m) matrix
MatMul(a, b) ==
    [i \in 1..Len(a) |-> [j \in 1..Len(b[1]) |->
        Sum([k \in 1..Len(b) |-> a[i][k] * b[k][j]], Len(b))]]

\* np.dot of a vector of length k and a (k x m) matrix
VecMat(v, b) ==
    [j \in 1..Len(b[1]) |-> Sum([k \in 1..Len(b) |-> v[k] * b[k][j]], Len(b))]

---------------------------------------------------------------------------
(* convert_world_points_to_image_points *)

\* the largest value of the array's integer type (dtype=int) on a build
\* whose C long has 32 bits; a 64-bit build has 2^63 - 1 in its place
IntMax == 2147483647
IntMin == (-IntMax) - 1

\* np.dot(np.concatenate((rotation_matrix, [translation_vector])), intrinsic_matrix)
CameraMatrix(cam) ==
    MatMul(cam.rotation_matrix \o <<cam.translation_vector>>, cam.intrinsic_matrix)

\* result[k] / result[2]: a float; dividing by zero gives inf, -inf or nan
\* with a warning, never an exception
TrueDivide(a, b) == [finite |-> b # 0, num |-> a, den |-> b]

Abs(n) == IF n < 0 THEN -n ELSE n

\* (mutant) the quotient rounded down instead of toward zero
TruncateFloor(num, den) ==
    (IF den < 0 THEN -num ELSE num) \div Abs(den)

\* The conversion of a finite float to the array's integer type drops the
\* fraction.
Truncate(num, den) ==
    IF (num < 0) = (den < 0) THEN Abs(num) \div Abs(den)
    ELSE -(Abs(num) \div Abs(den))

\* The conversion of inf, -inf or nan to an integer is undefined in C: a
\* build stores the smallest integer (x86), or saturates and stores 0 for
\* nan (ARM).
CastToInt(q) ==
    IF q.finite THEN {Truncate(q.num, q.den)}
    ELSE IF q.num > 0 THEN {IntMin, IntMax}
    ELSE IF q.num < 0 THEN {IntMin}
    ELSE {IntMin, 0}

\* (mutant) the rows are filled from the last one backwards
StoreRowReversed(a, i, row) == [a EXCEPT !.data[Len(a.data) - i] = row]

\* image_points[idx, :] = row (idx 0-based)
StoreRow(a, i, row) == [a EXCEPT !.data[i + 1] = row]

\* np.dot(np.append(val, 1), camera_matrix) of a world point
Result(cam, val) == VecMat(val \o <<1>>, CameraMatrix(cam))

\* result[2] of a world point
Depth(cam, val) == Result(cam, val)[3]

\* lines 20-23: the function is entered and image_points is allocated
ConvertEnter ==
    /\ ppc = "call_convert"
    /\ image_points' = Zeros(world_points.shape[1])
    /\ idx' = 0
    /\ ppc' = "convert"
    /\ UNCHANGED <<entry, camera, motion_capture_data, fps, markers, joint,
                   adapted_points, world_points, perror>>
    /\ UNCHANGED pairing_vars

\* lines 25-30: one iteration of `for idx, val in enumerate(world_points)`
ConvertStep ==
    /\ ppc = "convert"
    /\ idx < Len(Enumerate(world_points))
    /\ LET val         == Enumerate(world_points)[idx + 1]
           temp_matrix == val \o <<1>>
       IN  IF Len(temp_matrix) # Len(CameraMatrix(camera))
           THEN \* np.dot: shapes not aligned
                /\ ppc' = "raised"
                /\ perror' = "ValueError"
                /\ UNCHANGED <<image_points, idx>>
           ELSE LET result == VecMat(temp_matrix, CameraMatrix(camera))
                IN  /\ \E u \in CastToInt(TrueDivide(result[1], result[3])),
                          v \in CastToInt(TrueDivide(result[2], result[3])) :
                            image_points' = StoreRow(image_points, idx, <<u, v>>)
                    /\ idx' = idx + 1
                    /\ UNCHANGED <<ppc, perror>>
    /\ UNCHANGED <<entry, camera, motion_capture_data, fps, markers, joint,
                   adapted_points, world_points>>
    /\ UNCHANGED pairing_vars

\* line 32, called directly: image_points is the caller's result
ConvertReturn ==
    /\ ppc = "convert"
    /\ entry = "convert"
    /\ idx = Len(Enumerate(world_points))
    /\ ppc' = "done"
    /\ UNCHANGED <<entry, camera, motion_capture_data, fps, markers, joint,
                   adapted_points, world_points, image_points, idx, perror>>
    /\ UNCHANGED pairing_vars

---------------------------------------------------------------------------
(* adapt_motion_data_for_video *)

\* fps = 120 of read_motion_capture_data
NativeFps == 120

\* MotionCapture.get_joints_reduced_by_fps: every stride-th frame from frame
\* 0 on, the stride being native_fps / fps rounded to the nearest integer and
\* at least 1.
get_joints_reduced_by_fps(mocap, target_fps) ==
    LET stride == Max(1, (2 * mocap.fps + target_fps) \div (2 * target_fps))
        joints == mocap.joints
        kept   == (joints.shape[1] + stride - 1) \div stride
    IN  [shape |-> <<kept, joints.shape[2], joints.shape[3]>>,
         data  |-> [f \in 1..kept |-> joints.data[(f - 1) * stride + 1]]]

\* (mutant) the frame and joint counts exchanged
AdaptedShapeSwapped(m) == <<m.shape[2], m.shape[1], 2>>

\* (markers.shape[0], markers.shape[1], 2)
AdaptedShape(m) == <<m.shape[1], m.shape[2], 2>>

\* lines 47-48
AdaptEnter ==
    /\ ppc = "call_adapt"
    /\ LET m == get_joints_reduced_by_fps(motion_capture_data, fps)
       IN  /\ markers' = m
           /\ adapted_points' = Full(AdaptedShape(m))
    /\ joint' = 0
    /\ ppc' = "adapt"
    /\ UNCHANGED <<entry, camera, motion_capture_data, fps, world_points,
                   image_points, idx, perror>>
    /\ UNCHANGED pairing_vars

\* lines 50-52: the joint's world points are squeezed and converted
AdaptCall ==
    /\ ppc = "adapt"
    /\ joint < markers.shape[2]
    /\ world_points' = Squeeze(Column(markers, joint))
    /\ ppc' = "call_convert"
    /\ UNCHANGED <<entry, camera, motion_capture_data, fps, markers, joint,
                   adapted_points, image_points, idx, perror>>
    /\ UNCHANGED pairing_vars

\* line 52: image_points[:, i] = the converted points
AdaptAssign ==
    /\ ppc = "convert"
    /\ entry = "adapt"
    /\ idx = Len(Enumerate(world_points))
    /\ adapted_points' =
           [adapted_points EXCEPT !.data =
               [f \in 1..adapted_points.shape[1] |->
                   [@[f] EXCEPT ![joint + 1] = image_points.data[f]]]]
    /\ joint' = joint + 1
    /\ ppc' = "adapt"
    /\ UNCHANGED <<entry, camera, motion_capture_data, fps, markers,
                   world_points, image_points, idx, perror>>
    /\ UNCHANGED pairing_vars

\* line 54
AdaptReturn ==
    /\ ppc = "adapt"
    /\ joint = markers.shape[2]
    /\ ppc' = "done"
    /\ UNCHANGED <<entry, camera, motion_capture_data, fps, markers, joint,
                   adapted_points, world_points, image_points, idx, perror>>
    /\ UNCHANGED pairing_vars

---------------------------------------------------------------------------
(* The inputs of the projection *)

Identity3 == <<<<1, 0, 0>>, <<0, 1, 0>>, <<0, 0, 1>>>>

IdentityCamera ==
    [rotation_matrix |-> Identity3, translation_vector |-> <<0, 0, 0>>,
     intrinsic_matrix |-> Identity3]

\* a quarter turn about the z axis, a camera two units behind the origin,
\* focal length 2 and principal point (1, 1) (points are row vectors)
TurnedCamera ==
    [rotation_matrix |-> <<<<0, 1, 0>>, <<-1, 0, 0>>, <<0, 0, 1>>>>,
     translation_vector |-> <<1, 0, 2>>,
     intrinsic_matrix |-> <<<<2, 0, 0>>, <<0, 2, 0>>, <<1, 1, 1>>>>]

Cameras == {IdentityCamera, TurnedCamera}

\* the world points of a direct call; those with z = 0 (z = -2) have zero
\* projective depth for IdentityCamera (TurnedCamera)
WorldPoints == {<<x, y, z>> : x \in {-3, 3}, y \in {-3, 1}, z \in {-2, 0, 2}}

\* the joint positions of a motion capture: of non-zero depth for both cameras
JointPoints == {<<3, -3, 2>>, <<-3, 1, 4>>}

FpsChoices == {30, 60, NativeFps}

PointArrays ==
    {[shape |-> <<Len(d), 3>>, data |-> d] :
        d \in UNION {[1..n -> WorldPoints] : n \in 0..MaxPoints}}

JointArrays ==
    UNION {{[shape |-> <<f, j, 3>>, data |-> d] : d \in [1..f -> [1..j -> JointPoints]]} :
              f \in 0..MaxFrames, j \in 0..MaxJoints}

ProjectionInit ==
    /\ entry \in {"convert", "adapt"}
    /\ camera \in Cameras
    /\ IF entry = "convert"
       THEN /\ world_points \in PointArrays
            /\ motion_capture_data = <<>>
            /\ fps = 0
            /\ ppc = "call_convert"
       ELSE /\ world_points = <<>>
            /\ motion_capture_data \in
                   {[joints |-> a, fps |-> NativeFps] : a \in JointArrays}
            /\ fps \in FpsChoices
            /\ ppc = "call_adapt"
    /\ markers = <<>>
    /\ joint = 0
    /\ adapted_points = <<>>
    /\ image_points = <<>>
    /\ idx = 0
    /\ perror = ""

NextProjection ==
    \/ ConvertEnter
    \/ ConvertStep
    \/ ConvertReturn
    \/ AdaptEnter
    \/ AdaptCall
    \/ AdaptAssign
    \/ AdaptReturn

InitProjection == ProjectionInit /\ PairingIdle

SpecProjection == InitProjection /\ [][NextProjection]_vars

---------------------------------------------------------------------------
(* Properties of read_dataset (checked under Spec) *)

InList(l, x) == \E k \in 1..Len(l) : l[k] = x

\* the details of every file of the model, as get_details_from_path gives them
Details == [p \in AmassFiles \cup VideoFiles |-> get_details_from_path(p)]

\* for every MoCap file of the model, the video files its pattern matches
Matched == [p \in AmassFiles |-> {v \in VideoFiles : Match(CompiledFor(p), v)}]

\* the positions in video_paths of the videos the pattern of MoCap path p matches
MatchingVideos(p) == {i \in 1..Len(video_paths) : video_paths[i] \in Matched[p]}

\* t occurs in s at 1-based position i
OccursAt(s, t, i) ==
    /\ i + Len(t) - 1 <= Len(s)
    /\ \A k \in 1..Len(t) : s[i + k - 1] = t[k]

\* t is a substring of s
IsSubstring(t, s) == \E i \in 1..(Len(s) + 1) : OccursAt(s, t, i)

\* C1: a MoCap path whose iteration is over is in the output if and only if
\* exactly one video path matches its pattern, and then it is paired with
\* that video; with no match or several it is left out and nothing is
\* raised: read_dataset raises only at a path whose details do not parse.
C1_PairedIffExactlyOneMatch ==
    /\ \A k \in 1..(next_path - 1) :
          InList(motion_captures_list, amass_paths[k])
              <=> Cardinality(MatchingVideos(amass_paths[k])) = 1
    /\ \A k \in next_path..Len(amass_paths) :
          ~InList(motion_captures_list, amass_paths[k])
    /\ Len(videos_list) = Len(motion_captures_list)
    /\ \A m \in 1..Len(motion_captures_list) :
          videos_list[m] \in Matched[motion_captures_list[m]]
    /\ pc = "raised" => Details[amass_paths[next_path]].raised # ""

\* read_dataset has returned one pair, having left out a MoCap path that two
\* videos match.
C1_Witness ==
    /\ pc = "done"
    /\ Len(amass_paths) = 2
    /\ Len(motion_captures_list) = 1
    /\ \E k \in 1..Len(amass_paths) : Cardinality(MatchingVideos(amass_paths[k])) = 2
    /\ \E k \in 1..Len(amass_paths) : Cardinality(MatchingVideos(amass_paths[k])) = 1

\* C2: no MoCap path and no video path occurs in two of the output pairs.
C2_PairsUnique ==
    /\ \A i, j \in 1..Len(motion_captures_list) :
          i # j => motion_captures_list[i] # motion_captures_list[j]
    /\ \A i, j \in 1..Len(videos_list) :
          i # j => videos_list[i] # videos_list[j]

\* C3: every output pair joins a MoCap file and a video file whose details,
\* read from the file name as get_details_from_path reads them, are the same
\* name, subject number and trial number.
C3_PairsShareTriple ==
    \A m \in 1..Len(videos_list) :
        LET mocap == Details[motion_captures_list[m]]
            video == Details[videos_list[m]]
        IN  /\ video.raised = ""
            /\ video.name = mocap.name
            /\ video.number = mocap.number
            /\ video.sub_number = mocap.sub_number

\* C4: a MoCap path whose stem lacks the name token (it is shorter than the
\* end of the token) or has fewer than two numeric tokens makes read_dataset
\* raise: no iteration is completed for such a path.
C4_MalformedIdentifierRaises ==
    \A k \in 1..(next_path - 1) :
        /\ Len(Stem(amass_paths[k])) >= NameEnd
        /\ Len(Numbers(Stem(amass_paths[k]))) >= 2

\* the decimal digits of n occur in those of the different number m
ContainsNumber(m, n) == m # n /\ IsSubstring(Str(n), Str(m))

\* v holds "_", the subject number and "_", and after them "_", the trial
\* number and "."
HoldsDelimitedNumbers(v, d) ==
    LET subject == <<"_">> \o Str(d.number) \o <<"_">>
        trial   == <<"_">> \o Str(d.sub_number) \o <<".">>
    IN  \E a, b \in 1..Len(v) :
            /\ OccursAt(v, subject, a)
            /\ OccursAt(v, trial, b)
            /\ a + Len(subject) <= b

\* for every MoCap file of the model, the video files that hold its numbers
\* between delimiters
Delimited ==
    [p \in AmassFiles |-> {v \in VideoFiles : HoldsDelimitedNumbers(v, Details[p])}]

---------------------------------------------------------------------------
(* Properties of the projection (checked under SpecProjection) *)

\* the integer pixel of a world point of non-zero depth
Projection(cam, val) ==
    LET r == Result(cam, val)
    IN  <<Truncate(r[1], r[3]), Truncate(r[2], r[3])>>

AllDepthsNonZero(cam, rows) ==
    \A i \in 1..Len(rows) : Depth(cam, rows[i]) # 0

\* q is the quotient n / d with its fraction dropped
IsTruncatedQuotient(q, n, d) ==
    /\ Abs(q) * Abs(d) <= Abs(n)
    /\ Abs(n) < (Abs(q) + 1) * Abs(d)
    /\ q > 0 => (n > 0) = (d > 0)
    /\ q < 0 => (n > 0) # (d > 0)

\* C5: a world point of zero projective depth makes
\* convert_world_points_to_image_points signal an error (the code designates
\* no sentinel): no row is stored for such a point.
C5_ZeroDepthIsSignalled ==
    (entry = "convert" /\ ppc \in {"convert", "done"})
        => \A i \in 1..idx : Depth(camera, world_points.data[i]) # 0

\* C6 as the spec states it: adapt_motion_data_for_video ends with a
\* ShapeMismatch error when the motion capture has no joints.
C6_ZeroJointsRaiseShapeMismatch ==
    (entry = "adapt" /\ motion_capture_data.joints.shape[2] = 0
                     /\ ppc \in {"done", "raised"})
        => (ppc = "raised" /\ perror = "ShapeMismatch")

\* C6, amended: for a motion capture without joints
\* adapt_motion_data_for_video raises nothing, never calls the conversion and
\* returns the empty array of shape (frames, 0, 2).
C6_ZeroJointsReturnEmpty ==
    (entry = "adapt" /\ motion_capture_data.joints.shape[2] = 0)
        => /\ ppc \in {"call_adapt", "adapt", "done"}
           /\ perror = ""
           /\ ppc \in {"adapt", "done"} =>
                 /\ adapted_points.shape = <<markers.shape[1], 0, 2>>
                 /\ Len(adapted_points.data) = markers.shape[1]
                 /\ \A f \in 1..Len(adapted_points.data) : adapted_points.data[f] = <<>>

\* adapt_motion_data_for_video has returned for a motion capture of two
\* frames and no joints.
C6_Witness ==
    /\ entry = "adapt"
    /\ ppc = "done"
    /\ markers.shape = <<2, 0, 3>>
    /\ adapted_points.shape = <<2, 0, 2>>

\* C7: for a motion capture of at least one joint, all of non-zero depth,
\* adapt_motion_data_for_video returns an array of shape (frames, joints, 2)
\* whose entry [f, j] is the projection of joint j at resampled frame f.
C7_AdaptReturnsProjections ==
    ( /\ entry = "adapt"
      /\ ppc \in {"done", "raised"}
      /\ markers.shape[2] >= 1
      /\ \A f \in 1..markers.shape[1] : AllDepthsNonZero(camera, markers.data[f]) )
        => /\ ppc = "done"
           /\ adapted_points.shape = <<markers.shape[1], markers.shape[2], 2>>
           /\ \A f \in 1..markers.shape[1] : \A j \in 1..markers.shape[2] :
                 adapted_points.data[f][j] = Projection(camera, markers.data[f][j])

\* C8: called with N world points of non-zero depth,
\* convert_world_points_to_image_points raises nothing and returns N image
\* points, the i-th the projection of the i-th world point; while it runs,
\* the rows not yet reached are still zero.
C8_LengthAndOrderPreserved ==
    (entry = "convert" /\ AllDepthsNonZero(camera, world_points.data))
        => /\ ppc \in {"call_convert", "convert", "done"}
           /\ ppc \in {"convert", "done"} =>
                 /\ image_points.shape = <<Len(world_points.data), 2>>
                 /\ Len(image_points.data) = Len(world_points.data)
                 /\ \A i \in 1..Len(world_points.data) :
                       image_points.data[i] =
                           IF i <= idx THEN Projection(camera, world_points.data[i])
                           ELSE <<0, 0>>
           /\ ppc = "done" => idx = Len(world_points.data)

\* Two world points of non-zero depth and different pixels have been
\* converted.
C8_Witness ==
    /\ entry = "convert"
    /\ ppc = "done"
    /\ Len(world_points.data) = 2
    /\ AllDepthsNonZero(camera, world_points.data)
    /\ image_points.data[1] # image_points.data[2]
    /\ image_points.data[1] # <<0, 0>>

\* C9: with the identity camera, the row stored for a world point (x, y, z)
\* with z # 0 is (x / z, y / z), each quotient truncated toward zero.
C9_IdentityCameraTruncates ==
    (entry = "convert" /\ camera = IdentityCamera /\ ppc \in {"convert", "done"})
        => \A i \in 1..idx :
               LET p == world_points.data[i]
               IN  p[3] # 0 =>
                      /\ IsTruncatedQuotient(image_points.data[i][1], p[1], p[3])
                      /\ IsTruncatedQuotient(image_points.data[i][2], p[2], p[3])

\* The identity camera has converted (-3, 1, 2) to (-1, 0) and (3, -3, -2)
\* to (-1, 1).
C9_Witness ==
    /\ entry = "convert"
    /\ camera = IdentityCamera
    /\ ppc = "done"
    /\ world_points.data = <<<<-3, 1, 2>>, <<3, -3, -2>>>>
    /\ image_points.data = <<<<-1, 0>>, <<-1, 1>>>>

===========================================================================
